---- MODULE Spec2Model ----
(***************************************************************************)
(* Animated-entity simulation and heat rendering of minerva-ui.            *)
(*                                                                         *)
(* Two revisions of the HeatMap component family are modelled side by side *)
(* and selected by the variable `variant`:                                 *)
(*   "capped"     src/unnamed/part_003        (curved forward motion with  *)
(*                a tick cap, friendly/enemy/attribution heat overlays)    *)
(*   "elliptical" src/src/components/HeatMap.tsx (elliptical orbit, one    *)
(*                heat overlay)                                            *)
(*                                                                         *)
(* Numbers are fixed point:                                                *)
(*   latitude, longitude, radii, distance   1e-4 degree                    *)
(*   heading, direction                     1e-3 degree                    *)
(*   orbit angle                            1/6280 of a full turn          *)
(*   sines and cosines, attribution         1e-3                           *)
(*   strategicValue                         1e-1                           *)
(*   curvature                              1e-3 radian per degree         *)
(***************************************************************************)
EXTENDS Integers, Sequences, FiniteSets, TLC

(***************************************************************************)
(* Bounds of the model.                                                    *)
(***************************************************************************)
\* timeStepRef is not incremented beyond this value (the code never stops).
MaxTicks == 102
\* number of render cycles in which overlay construction is made to throw
MaxThrows == 1
\* a throwing render cycle attaches at most this many overlays before it
\* throws
ThrowAfter == 1
\* interval firings of the elliptical model that are followed after each
\* (re)initialisation of the motion state (the orbit itself never ends)
MaxOrbitTicks == 3

(***************************************************************************)
(* Program constants.                                                      *)
(***************************************************************************)
maxTimeSteps == 100
\* interval firings (200 ms) that fit before the fallback timeout (500 ms)
TimeoutTicks == 2
\* one full turn (Math.PI * 2) and its half and quarter, in angle units
TwoPi == 6280
Pi == 3140
HalfPi == 1570
\* 360 degrees and 180 degrees in 1e-3 degree
FullCircle == 360000
HalfCircle == 180000

(***************************************************************************)
(* Arithmetic helpers.                                                     *)
(***************************************************************************)
Abs(x) == IF x < 0 THEN -x ELSE x

Min(a, b) == IF a <= b THEN a ELSE b

Max(a, b) == IF a >= b THEN a ELSE b

\* x / d rounded toward zero (fixed-point rescaling)
Scale(x, d) == IF x >= 0 THEN x \div d ELSE -((-x) \div d)

\* The JavaScript remainder a % m: the result has the sign of the dividend.
JsMod(a, m) == IF a >= 0 THEN a % m ELSE -((-a) % m)

\* sin on [0, Pi], times 1000 (Bhaskara's rational approximation)
SinHalfTurn(x) ==
  LET p == (x * (Pi - x)) \div 100
  IN  (16000 * p) \div (492980 - 4 * p)

\* Math.sin, times 1000, of an angle in angle units
Sin1000(a) ==
  LET r == Abs(a) % TwoPi
      s == IF r <= Pi THEN SinHalfTurn(r) ELSE -SinHalfTurn(r - Pi)
  IN  IF a < 0 THEN -s ELSE s

\* Math.cos, times 1000, of an angle in angle units
Cos1000(a) == Sin1000(a + HalfPi)

\* degrees (1e-3) to angle units: x * (Math.PI / 180)
DegToAngle(d) == Scale(d * 157, 9000)

\* latitude (1e-4 degree) to angle units
LatToAngle(lat) == Scale(lat * 157, 90000)

\* atan of z/1000 for 0 <= z <= 1000, in 1e-3 degree
AtanUnit(z) == 45 * z + (1564 * z * (1000 - z)) \div 100000

\* Math.atan2(y, x) * (180 / Math.PI), in 1e-3 degree: a value in
\* (-180000, 180000]
Atan2Deg(y, x) ==
  LET ay == Abs(y)
      ax == Abs(x)
      t  == IF ax = 0 /\ ay = 0 THEN 0
            ELSE IF ay <= ax THEN AtanUnit((ay * 1000) \div ax)
            ELSE 90000 - AtanUnit((ax * 1000) \div ay)
      q  == IF x >= 0 THEN t ELSE HalfCircle - t
  IN  IF y < 0 THEN -q ELSE q

(***************************************************************************)
(* Entity Model Generator.                                                 *)
(***************************************************************************)
\* an optional number that is undefined
Absent == << >>

HasField(r, f) == f \in DOMAIN r

fighterJetTypes ==
  << [type |-> "SU-57",  baseThreat |-> 9, baseArmament |-> 8],
     [type |-> "J-20",   baseThreat |-> 8, baseArmament |-> 7],
     [type |-> "MiG-35", baseThreat |-> 7, baseArmament |-> 7],
     [type |-> "SU-35",  baseThreat |-> 8, baseArmament |-> 8],
     [type |-> "J-16",   baseThreat |-> 6, baseArmament |-> 7],
     [type |-> "J-10C",  baseThreat |-> 6, baseArmament |-> 6],
     [type |-> "MiG-29", baseThreat |-> 5, baseArmament |-> 6],
     [type |-> "SU-30",  baseThreat |-> 7, baseArmament |-> 7],
     [type |-> "JF-17",  baseThreat |-> 4, baseArmament |-> 5],
     [type |-> "J-7",    baseThreat |-> 3, baseArmament |-> 4] >>

\* fighterJetTypes.find(t => t.type === jetType) || fighterJetTypes[0]
jetTypeData(jetType) ==
  LET hits == {i \in DOMAIN fighterJetTypes : fighterJetTypes[i].type = jetType}
  IN  IF hits = {} THEN fighterJetTypes[1]
      ELSE fighterJetTypes[CHOOSE i \in hits : \A j \in hits : i <= j]

\* a strategic value without the added 1
strategicValueOfNoBonus(data) ==
  Min(100, data.baseThreat * 6 + data.baseArmament * 4)

\* Math.min(10, baseThreat * 0.6 + baseArmament * 0.4 + 1), in tenths
strategicValueOf(data) ==
  Min(100, data.baseThreat * 6 + data.baseArmament * 4 + 10)

callsignsCapped ==
  << "EAGLE", "VIPER", "RAPTOR", "THUNDER", "FALCON", "WARTHOG",
     "DRAGON", "FLANKER", "FOXHOUND", "FELON", "FIREBIRD", "FULCRUM" >>

callsignsElliptical == << "BONG", "SATAN", "SCAT", "HOSS" >>

\* an attribution that is not clamped
attributionOfUnclamped(data, rnd) == 400 + data.baseThreat * 60 + rnd

\* Math.min(1, Math.max(0, 0.4 + (baseThreat / 10) * 0.6 + Math.random() * 0.2))
\* in thousandths; rnd is Math.random() * 0.2 in thousandths
attributionOf(data, rnd) ==
  Min(1000, Max(0, 400 + data.baseThreat * 60 + rnd))

\* a createSpecificJet that numbers friendly and enemy jets separately
createSpecificJetCappedPerSide(lat, lng, jetType, index, friendly, rnd) ==
  LET data == jetTypeData(jetType)
  IN  [ id             |-> index % 6,
        lat            |-> lat,
        lng            |-> lng,
        type           |-> jetType,
        callsign       |-> callsignsCapped[(index % Len(callsignsCapped)) + 1],
        threatLevel    |-> data.baseThreat,
        armamentLevel  |-> data.baseArmament,
        strategicValue |-> strategicValueOf(data),
        altitude       |-> 25000 + index * 5000,
        speed          |-> 600 + index * 100,
        heading        |-> index * 30 * 1000,
        friendly       |-> friendly,
        attribution    |-> IF ~friendly THEN << attributionOf(data, rnd) >>
                           ELSE Absent ]

\* createSpecificJet of part_003; index counts from 0, id is "jet-" + index
createSpecificJetCapped(lat, lng, jetType, index, friendly, rnd) ==
  LET data == jetTypeData(jetType)
  IN  [ id             |-> index,
        lat            |-> lat,
        lng            |-> lng,
        type           |-> jetType,
        callsign       |-> callsignsCapped[(index % Len(callsignsCapped)) + 1],
        threatLevel    |-> data.baseThreat,
        armamentLevel  |-> data.baseArmament,
        strategicValue |-> strategicValueOf(data),
        altitude       |-> 25000 + index * 5000,
        speed          |-> 600 + index * 100,
        heading        |-> index * 30 * 1000,
        friendly       |-> friendly,
        attribution    |-> IF ~friendly THEN << attributionOf(data, rnd) >>
                           ELSE Absent ]

\* createSpecificJet of HeatMap.tsx
createSpecificJetElliptical(lat, lng, jetType, index) ==
  LET data == jetTypeData(jetType)
  IN  [ id             |-> index,
        lat            |-> lat,
        lng            |-> lng,
        type           |-> jetType,
        callsign       |-> callsignsElliptical[index + 1],
        threatLevel    |-> data.baseThreat,
        armamentLevel  |-> data.baseArmament,
        strategicValue |-> strategicValueOf(data),
        altitude       |-> 25000 + index * 5000,
        speed          |-> 600 + index * 100,
        heading        |-> index * 90 * 1000 ]

\* the 12 fixed positions of part_003, as multiples of the radius
positionsCapped ==
  << [dlat |->   6, dlng |->   0, type |-> "F-35 Lightning II",    friendly |-> TRUE],
     [dlat |->   5, dlng |->   5, type |-> "F-22 Raptor",          friendly |-> TRUE],
     [dlat |->   0, dlng |->   8, type |-> "F-15EX Eagle II",      friendly |-> TRUE],
     [dlat |->  -5, dlng |->   5, type |-> "F/A-18E Super Hornet", friendly |-> TRUE],
     [dlat |-> -10, dlng |->   2, type |-> "F-16 Fighting Falcon", friendly |-> TRUE],
     [dlat |-> -12, dlng |->   0, type |-> "A-10 Thunderbolt II",  friendly |-> TRUE],
     [dlat |->   0, dlng |-> -15, type |-> "J-20",                 friendly |-> FALSE],
     [dlat |->   5, dlng |->  -5, type |-> "Su-57",                friendly |-> FALSE],
     [dlat |->  10, dlng |->  -2, type |-> "Su-35",                friendly |-> FALSE],
     [dlat |->  -5, dlng |->  -5, type |-> "J-16",                 friendly |-> FALSE],
     [dlat |-> -10, dlng |->  -2, type |-> "J-10C",                friendly |-> FALSE],
     [dlat |->  -2, dlng |-> -10, type |-> "MiG-35",               friendly |-> FALSE] >>

\* a generateBattlefieldData that counts the jets from 1
generateBattlefieldDataCappedFromOne(center, radius, rnd) ==
  [ i \in DOMAIN positionsCapped |->
      createSpecificJetCapped(center[1] + radius * positionsCapped[i].dlat,
                              center[2] + radius * positionsCapped[i].dlng,
                              positionsCapped[i].type, i,
                              positionsCapped[i].friendly, rnd[i]) ]

\* generateBattlefieldData of part_003; rnd[i] is the i-th jet's random draw
generateBattlefieldDataCapped(center, radius, rnd) ==
  [ i \in DOMAIN positionsCapped |->
      createSpecificJetCapped(center[1] + radius * positionsCapped[i].dlat,
                              center[2] + radius * positionsCapped[i].dlng,
                              positionsCapped[i].type, i - 1,
                              positionsCapped[i].friendly, rnd[i]) ]

\* the 4 fixed positions of HeatMap.tsx, in tenths of the radius
positionsElliptical ==
  << [dlat |->  7, dlng |->  0, type |-> "SU-57"],
     [dlat |->  0, dlng |->  7, type |-> "J-20"],
     [dlat |-> -7, dlng |->  0, type |-> "F-22"],
     [dlat |->  0, dlng |-> -7, type |-> "SU-35"] >>

\* generateBattlefieldData of HeatMap.tsx
generateBattlefieldDataElliptical(center, radius) ==
  [ i \in DOMAIN positionsElliptical |->
      createSpecificJetElliptical(
        center[1] + Scale(radius * positionsElliptical[i].dlat, 10),
        center[2] + Scale(radius * positionsElliptical[i].dlng, 10),
        positionsElliptical[i].type, i - 1) ]

\* centre and radius of the scenarios. HeatMap.tsx lists four scenarios and
\* part_003 one; the model animates the first two of HeatMap.tsx's list in
\* both variants, so that the points handed to useMovingHeatPoints can
\* change under either motion model.
scenarioSites ==
  << [name |-> "Northern Taiwan", markerCenter |-> << 250470, 1215320 >>,
      radius |-> 600],
     [name |-> "Eastern Taiwan", markerCenter |-> << 239930, 1216010 >>,
      radius |-> 500] >>

\* the jets of each scenario that the model animates (positions in the
\* generated list); the two lists differ in length
roster(v) ==
  IF v = "capped" THEN << << 1, 7 >>, << 8 >> >>
  ELSE << << 1, 3 >>, << 2 >> >>

\* Math.random() * 0.2 of createSpecificJet, in thousandths: the draw that
\* the jets of each scenario get
jitterOf == << 0, 199 >>

Pick(list, idx) == [k \in DOMAIN idx |-> list[idx[k]]]

\* the scenarios array: heatmapPoints of each scenario
scenariosOf(v) ==
  [ s \in DOMAIN scenarioSites |->
      [ name         |-> scenarioSites[s].name,
        markerCenter |-> scenarioSites[s].markerCenter,
        heatmapPoints |->
          Pick(IF v = "capped"
               THEN generateBattlefieldDataCapped(
                      scenarioSites[s].markerCenter, scenarioSites[s].radius,
                      [i \in DOMAIN positionsCapped |-> jitterOf[s]])
               ELSE generateBattlefieldDataElliptical(
                      scenarioSites[s].markerCenter, scenarioSites[s].radius),
               roster(v)[s]) ] ]

(***************************************************************************)
(* Motion Integrator.                                                      *)
(***************************************************************************)
\* the object spread { ...base, ...over }
Spread(base, over) == over @@ base

\* Math.random() draws of one initializeAnimatedPoints call of part_003:
\* direction = Math.random() * 360 and
\* curvature = (Math.random() * 0.002 - 0.001) * 30
DrawsCapped ==
  { [direction |-> 0,      curvature |-> -30],
    [direction |-> 359999, curvature |-> 29] }

\* Math.random() draws of one initializeAnimatedPoints call of HeatMap.tsx:
\* ry = Math.random() * 0.015, rx = Math.random() * 0.02,
\* speed = 0.01 + Math.random() * 0.01, angle = Math.random() * Math.PI * 2,
\* clockwise = Math.random() > 0.5
DrawsElliptical ==
  { [ry |-> 0,   rx |-> 0,   speed |-> 10, angle |-> 5,    clockwise |-> FALSE],
    [ry |-> 149, rx |-> 199, speed |-> 10, angle |-> 6255, clockwise |-> TRUE] }

Draws(v) == IF v = "capped" THEN DrawsCapped ELSE DrawsElliptical

\* the draws of one initializeAnimatedPoints call on n points: neighbouring
\* points get different draws
DrawLists(v, n) ==
  LET a == CHOOSE d \in Draws(v) : TRUE
      b == CHOOSE d \in Draws(v) : d # a
  IN  { [i \in 1..n |-> IF (i + k) % 2 = 0 THEN a ELSE b] : k \in 0..1 }

\* the callback of points.map in initializeAnimatedPoints of part_003
initializePointCapped(point, draw) ==
  LET isFriendly == IF HasField(point, "friendly") THEN point.friendly ELSE FALSE
      intensity  == IF isFriendly THEN 700 ELSE 800
      speed      == IF isFriendly THEN ((60 + (2 * intensity) \div 100) * 30) \div 10
                    ELSE ((40 + (2 * intensity) \div 100) * 30) \div 10
  IN  Spread(point,
             [ startLat  |-> point.lat,
               startLng  |-> point.lng,
               speed     |-> speed,
               direction |-> draw.direction,
               curvature |-> draw.curvature,
               intensity |-> intensity,
               distance  |-> 0 ])

\* the callback of points.map in initializeAnimatedPoints of HeatMap.tsx
initializePointElliptical(point, draw) ==
  LET longitudeCorrectionFactor == Cos1000(LatToAngle(point.lat))
      intensity == IF HasField(point, "intensity") /\ point.intensity # 0
                   THEN point.intensity ELSE 500
      baseSize  == 150 + intensity \div 10
  IN  Spread(point,
             [ centerLat |-> point.lat,
               centerLng |-> point.lng,
               radiusX   |-> ((baseSize * 2 + draw.rx) * 1000)
                               \div longitudeCorrectionFactor,
               radiusY   |-> baseSize + draw.ry,
               speed     |-> draw.speed,
               angle     |-> draw.angle,
               clockwise |-> draw.clockwise ])

\* an initializeAnimatedPoints that assigns the motion fields to the points
\* it is given
animatedPointIsScenarioObjectInPlace(v) == TRUE

\* Whether an element of initializeAnimatedPoints(points) is the object of
\* `points` it was made from: both files return a new object literal
\* { ...point, ... } per point.
animatedPointIsScenarioObject(v) == FALSE

initializeAnimatedPoints(v, points, draws) ==
  [ i \in DOMAIN points |->
      IF v = "capped" THEN initializePointCapped(points[i], draws[i])
      ELSE initializePointElliptical(points[i], draws[i]) ]

\* normalizeAngle: angle % (Math.PI * 2)
normalizeAngle(angle) == JsMod(angle, TwoPi)

\* curvature * newDistance, converted to 1e-3 degree
CurveDeg(curvature, distance) == Scale(curvature * distance * 573, 100000)

\* curvature * newDistance * newDistance * 0.5, in 1e-4 degree
CurveOffset(curvature, distance) ==
  Scale(curvature * ((distance * distance) \div 10000), 2000)

\* The map callback of the interval of part_003 on `point` past its cap
\* check.  "kept" is the object of animatedPointsRef.current after the call
\* (the callback assigns point.distance), "made" the object it returns.
moveCapped(point) ==
  LET newDistance  == point.distance + point.speed
      directionRad == DegToAngle(point.direction)
      newLng == point.startLng
                + Scale(Cos1000(directionRad) * newDistance, 1000)
                + Scale(Sin1000(directionRad)
                        * CurveOffset(point.curvature, newDistance), 1000)
      newLat == point.startLat
                + Scale(Sin1000(directionRad) * newDistance, 1000)
                - Scale(Cos1000(directionRad)
                        * CurveOffset(point.curvature, newDistance), 1000)
      heading == JsMod(point.direction
                       + CurveDeg(point.curvature, newDistance)
                       + FullCircle, FullCircle)
      kept == [point EXCEPT !.distance = newDistance]
  IN  [ kept |-> kept,
        made |-> IF HasField(point, "type") /\ HasField(point, "strategicValue")
                 THEN Spread(kept, [lat |-> newLat, lng |-> newLng,
                                    heading |-> heading])
                 ELSE Spread(kept, [lat |-> newLat, lng |-> newLng,
                                    intensity |-> kept.intensity]) ]

\* advanceCapped without the check of the tick counter against maxTimeSteps
advanceCappedNoCap(point, ts) == moveCapped(point)

\* One call of the map callback of the interval of part_003 on `point`, with
\* timeStepRef.current already incremented to ts.  At the cap the callback
\* returns a copy of the point and assigns nothing.
advanceCapped(point, ts) ==
  IF ts >= maxTimeSteps
  THEN [kept |-> point, made |-> point]
  ELSE moveCapped(point)

\* One call of the map callback of the interval of HeatMap.tsx on `point`
\* (the callback assigns point.angle).
advanceElliptical(point) ==
  LET sign     == IF point.clockwise THEN 1 ELSE -1
      newAngle == normalizeAngle(point.angle + sign * point.speed)
      newLat   == point.centerLat + Scale(point.radiusY * Sin1000(newAngle), 1000)
      newLng   == point.centerLng + Scale(point.radiusX * Cos1000(newAngle), 1000)
      dx       == -point.radiusX * Sin1000(newAngle) * (-sign)
      dy       == point.radiusY * Cos1000(newAngle) * (-sign)
      heading  == Atan2Deg(dx, dy)
      kept     == [point EXCEPT !.angle = newAngle]
  IN  [ kept |-> kept,
        made |-> IF HasField(point, "type") /\ HasField(point, "strategicValue")
                 THEN Spread(kept, [lat |-> newLat, lng |-> newLng,
                                    heading |-> heading])
                 ELSE Spread(kept, [lat |-> newLat, lng |-> newLng]) ]

advance(v, point, ts) ==
  IF v = "capped" THEN advanceCapped(point, ts) ELSE advanceElliptical(point)

(***************************************************************************)
(* Renderers: pure parts.                                                  *)
(***************************************************************************)
\* animatedPoints.filter(point => 'type' in point && 'heading' in point)
fighterJets(points) ==
  SelectSeq(points, LAMBDA p : HasField(p, "type") /\ HasField(p, "heading"))

\* point.intensity || 1, in thousandths
intensityOr1(point) ==
  IF HasField(point, "intensity") /\ point.intensity # 0
  THEN point.intensity ELSE 1000

formattedPoint(point) == << point.lat, point.lng, intensityOr1(point) >>

isJet(point) == HasField(point, "type") /\ HasField(point, "heading")

\* 'friendly' in point ? point.friendly : false
isFriendlyPoint(point) ==
  IF HasField(point, "friendly") THEN point.friendly ELSE FALSE

\* the three point arrays the heat effect of part_003 fills
friendlyPoints(points) ==
  [ i \in DOMAIN SelectSeq(points, isFriendlyPoint) |->
      formattedPoint(SelectSeq(points, isFriendlyPoint)[i]) ]

enemyPoints(points) ==
  LET enemy(p) == ~isFriendlyPoint(p)
  IN  [ i \in DOMAIN SelectSeq(points, enemy) |->
          formattedPoint(SelectSeq(points, enemy)[i]) ]

\* an attribution point array weighted by the intensity of the point
attributionPointsByIntensity(points) ==
  LET attributed(p) == /\ isJet(p)
                       /\ ~p.friendly
                       /\ HasField(p, "attribution")
                       /\ p.attribution # Absent
      sel == SelectSeq(points, attributed)
  IN  [ i \in DOMAIN sel |-> << sel[i].lat, sel[i].lng, intensityOr1(sel[i]) >> ]

attributionPoints(points) ==
  LET attributed(p) == /\ isJet(p)
                       /\ ~p.friendly
                       /\ HasField(p, "attribution")
                       /\ p.attribution # Absent
      sel == SelectSeq(points, attributed)
  IN  [ i \in DOMAIN sel |-> << sel[i].lat, sel[i].lng, sel[i].attribution[1] >> ]

\* the overlays one run of the heat effect constructs, in construction
\* order: the non-empty ones of friendly, enemy, attribution in part_003,
\* the single layer of HeatMap.tsx
heatLayersFor(v, points) ==
  IF v = "capped"
  THEN SelectSeq(<< [kind |-> "friendly",    latlngs |-> friendlyPoints(points)],
                    [kind |-> "enemy",       latlngs |-> enemyPoints(points)],
                    [kind |-> "attribution", latlngs |-> attributionPoints(points)] >>,
                 LAMBDA l : Len(l.latlngs) > 0)
  ELSE << [kind |-> "heat",
           latlngs |-> [i \in DOMAIN points |-> formattedPoint(points[i])]] >>

\* the colours of getColor for enemy jets, from the lowest bucket to the
\* highest: by attribution, and by strategicValue
attributionScale == << "#FFA500", "#FF8C00", "#FF4500", "#FF0000" >>

strategicValueScale == << "#34C759", "#FFCC00", "#FF9500", "#FF3B30" >>

\* jet.attribution !== undefined
hasAttribution(jet) == HasField(jet, "attribution") /\ jet.attribution # Absent

\* a getColor whose comparisons are strict
getColorStrict(jet) ==
  IF HasField(jet, "friendly") /\ jet.friendly THEN "#0080FF"
  ELSE IF hasAttribution(jet)
  THEN IF jet.attribution[1] > 800 THEN attributionScale[4]
       ELSE IF jet.attribution[1] > 600 THEN attributionScale[3]
       ELSE IF jet.attribution[1] > 400 THEN attributionScale[2]
       ELSE attributionScale[1]
  ELSE IF jet.strategicValue > 80 THEN strategicValueScale[4]
       ELSE IF jet.strategicValue > 60 THEN strategicValueScale[3]
       ELSE IF jet.strategicValue > 40 THEN strategicValueScale[2]
       ELSE strategicValueScale[1]

\* a getColor that looks at the attribution before the allegiance
getColorAttributionFirst(jet) ==
  IF hasAttribution(jet)
  THEN IF jet.attribution[1] >= 800 THEN attributionScale[4]
       ELSE IF jet.attribution[1] >= 600 THEN attributionScale[3]
       ELSE IF jet.attribution[1] >= 400 THEN attributionScale[2]
       ELSE attributionScale[1]
  ELSE IF HasField(jet, "friendly") /\ jet.friendly THEN "#0080FF"
  ELSE IF jet.strategicValue >= 80 THEN strategicValueScale[4]
       ELSE IF jet.strategicValue >= 60 THEN strategicValueScale[3]
       ELSE IF jet.strategicValue >= 40 THEN strategicValueScale[2]
       ELSE strategicValueScale[1]

\* getColor of createJetIcon of part_003
getColor(jet) ==
  IF HasField(jet, "friendly") /\ jet.friendly THEN "#0080FF"
  ELSE IF hasAttribution(jet)
  THEN IF jet.attribution[1] >= 800 THEN attributionScale[4]
       ELSE IF jet.attribution[1] >= 600 THEN attributionScale[3]
       ELSE IF jet.attribution[1] >= 400 THEN attributionScale[2]
       ELSE attributionScale[1]
  ELSE IF jet.strategicValue >= 80 THEN strategicValueScale[4]
       ELSE IF jet.strategicValue >= 60 THEN strategicValueScale[3]
       ELSE IF jet.strategicValue >= 40 THEN strategicValueScale[2]
       ELSE strategicValueScale[1]

\* getColor of createJetIcon of HeatMap.tsx: by strategic value alone
getColorElliptical(strategicValue) ==
  IF strategicValue >= 80 THEN strategicValueScale[4]
  ELSE IF strategicValue >= 60 THEN strategicValueScale[3]
  ELSE IF strategicValue >= 40 THEN strategicValueScale[2]
  ELSE strategicValueScale[1]

\* createJetIcon: the L.divIcon made for a jet; AircraftIcons of part_003
\* calls createJetIcon(jet, 24, jet.heading), that of HeatMap.tsx
\* createJetIcon(jet.strategicValue); width is the size written into the html
createJetIcon(v, jet, size) ==
  [ color      |-> IF v = "capped" THEN getColor(jet)
                   ELSE getColorElliptical(jet.strategicValue),
    width      |-> IF v = "capped" THEN size ELSE 24,
    iconSize   |-> << 24, 24 >>,
    iconAnchor |-> << 12, 12 >> ]

\* the position a point started from
Origin(p) ==
  IF HasField(p, "startLat") THEN << p.startLat, p.startLng >>
  ELSE IF HasField(p, "centerLat") THEN << p.centerLat, p.centerLng >>
  ELSE << p.lat, p.lng >>

(***************************************************************************)
(* State.                                                                  *)
(***************************************************************************)
VARIABLES
  variant,            \* which revision of the component family runs
  scenarios,          \* the module-level scenarios array
  mounted,            \* HeatMap / HeatMapLayer are mounted
  activeTab,          \* HeatMap: useState activeTab (1-based)
  effTab,             \* the points the [points] effect last ran for; 0: never
  animatedPoints,     \* useMovingHeatPoints: the state, the published snapshot
  animatedPointsRef,  \* useMovingHeatPoints: animatedPointsRef.current
  timeStepRef,        \* useMovingHeatPoints: timeStepRef.current (part_003)
  orbitTicks,         \* HeatMap.tsx: interval firings since the motion state
                      \* was initialised (bounds the run; not in the code)
  aliased,            \* animatedPoints and animatedPointsRef.current are the
                      \* same array of the same objects
  prevSnapshot,       \* the objects of the snapshot that animatedPoints
                      \* replaced, as they are now
  mapReady,           \* HeatMapLayer: useState mapReady
  timeoutActive,      \* the 500 ms fallback timer is pending
  intervalActive,     \* the motion interval is running
  effectsPending,     \* a render is committed and its effects have not run
  heatDirty,          \* a dependency of the heat effect changed since its
                      \* last run
  mapHeatLayers,      \* the heat overlays attached to the map
  heatCleanup,        \* the last run of the heat effect returned a cleanup
  mapMarkers,         \* the aircraft markers attached to the map
  throws,             \* render cycles whose overlay construction threw
  probe               \* the last call of a function of the module made on
                      \* its own, with its arguments and its result

\* The simulation feed: App of part_001 (plays the timesteps once) and of
\* part_002 (loops).
VARIABLES
  simVariant,         \* "once": part_001, "loop": part_002
  simRunning,         \* App is mounted
  simMessages,        \* App: useState messages
  currentStep,        \* App: useState currentStep
  stepInClosure,      \* the currentStep of the render whose effect made the
                      \* live interval
  simInterval,        \* the interval of the last effect run is live
  simEffectsPending,  \* a render with a new currentStep is committed and
                      \* its effect has not run
  simAppended         \* every message appended so far, in order (history)

simVars == << simVariant, simRunning, simMessages, currentStep, stepInClosure,
              simInterval, simEffectsPending, simAppended >>

\* The socket feeds: App of App.tsx, and the two revisions of Home in
\* part_004 (the message log with the demo fallback, and the chat).
VARIABLES
  page,               \* which component is mounted: "App", "HomeFeed",
                      \* "HomeChat", or "none"
  wsState,            \* the WebSocket: "none", "connecting", "open",
                      \* "failed" (error fired, close to follow), "closed"
  socketsCreated,     \* evaluations of new WebSocket(...)
  connected,          \* Home: useState connected / wsConnected
  messages,           \* App, Home: useState messages
  chatMessages,       \* Home (chat): useState chatMessages
  responseTimers,     \* Home (chat): the pending setTimeout(..., 500)
                      \* callbacks, by the id of their message
  demoInterval,       \* Home: the interval of the demo effect is live
  demoIndex,          \* Home: `index` of the demo effect's last run
  pageEffectsPending, \* a render is committed and its effects have not run
  consoleErrors,      \* calls of console.error
  uncaughtErrors,     \* errors that left a handler
  received,           \* the payloads onmessage was called with (history)
  lastTransition      \* the last of the socket's open, error and close
                      \* events (history)

socketVars == << page, wsState, socketsCreated, connected, messages,
                 chatMessages, responseTimers, demoInterval, demoIndex,
                 pageEffectsPending, consoleErrors, uncaughtErrors, received,
                 lastTransition >>

appVars == << simVars, socketVars >>

vars == << variant, scenarios, mounted, activeTab, effTab, animatedPoints,
           animatedPointsRef, timeStepRef, orbitTicks, aliased, prevSnapshot,
           mapReady, timeoutActive, intervalActive,
           effectsPending, heatDirty, mapHeatLayers, heatCleanup, mapMarkers,
           throws, probe, appVars >>

\* App is not mounted
SimIdle ==
  /\ simVariant = "once"
  /\ simRunning = FALSE
  /\ simMessages = << >>
  /\ currentStep = 0
  /\ stepInClosure = 0
  /\ simInterval = FALSE
  /\ simEffectsPending = FALSE
  /\ simAppended = << >>

\* the state of a socket feed before its first effects ran
SocketFresh ==
  /\ wsState = "none"
  /\ socketsCreated = 0
  /\ connected = FALSE
  /\ messages = << >>
  /\ chatMessages = << >>
  /\ responseTimers = << >>
  /\ demoInterval = FALSE
  /\ demoIndex = 0
  /\ consoleErrors = 0
  /\ uncaughtErrors = 0
  /\ received = << >>
  /\ lastTransition = "none"

\* no socket feed is mounted
SocketIdle ==
  /\ page = "none"
  /\ pageEffectsPending = FALSE
  /\ SocketFresh

\* none of the message feeds is mounted
AppIdle == SimIdle /\ SocketIdle

\* no function of the module has been called on its own
NoCall == [op |-> "none"]

Variants == {"capped", "elliptical"}

\* currentScenario.heatmapPoints, the points prop of HeatMapLayer
points == scenarios[activeTab].heatmapPoints

\* the scenario whose generated list holds the origin of p
ScenarioOf(p) ==
  CHOOSE s \in DOMAIN scenarios :
    \E i \in DOMAIN scenarios[s].heatmapPoints :
      Origin(p) = << scenarios[s].heatmapPoints[i].lat,
                     scenarios[s].heatmapPoints[i].lng >>

Init ==
  /\ variant \in Variants
  /\ scenarios = scenariosOf(variant)
  /\ mounted = TRUE
  /\ activeTab = 1
  /\ effTab = 0
  /\ animatedPoints = scenarios[1].heatmapPoints
  /\ \E draws \in DrawLists(variant, Len(scenarios[1].heatmapPoints)) :
       animatedPointsRef =
         initializeAnimatedPoints(variant, scenarios[1].heatmapPoints, draws)
  /\ timeStepRef = 0
  /\ orbitTicks = 0
  /\ aliased = FALSE
  /\ prevSnapshot = << >>
  /\ mapReady = FALSE
  /\ timeoutActive = FALSE
  /\ intervalActive = FALSE
  /\ effectsPending = TRUE
  /\ heatDirty = TRUE
  /\ mapHeatLayers = << >>
  /\ heatCleanup = FALSE
  /\ mapMarkers = << >>
  /\ throws = 0
  /\ probe = NoCall
  /\ AppIdle

(***************************************************************************)
(* The motion interval.                                                    *)
(***************************************************************************)
\* The setInterval callback of useMovingHeatPoints, with the render that
\* setAnimatedPoints(newPoints) causes.  Every overlay on the map was built
\* from an earlier snapshot afterwards.  The callback assigns to the objects
\* of animatedPointsRef.current (point.distance, point.angle), which are the
\* objects initializeAnimatedPoints made until the first tick replaces them.
Tick ==
  /\ mounted
  /\ intervalActive
  /\ ~effectsPending
  /\ variant = "capped" => timeStepRef < MaxTicks
  /\ (variant = "capped" /\ timeoutActive) => timeStepRef < TimeoutTicks
  /\ variant = "elliptical" => orbitTicks < MaxOrbitTicks
  /\ LET ts  == IF variant = "capped" THEN timeStepRef + 1 ELSE timeStepRef
         res == [ i \in DOMAIN animatedPointsRef |->
                    advance(variant, animatedPointsRef[i], ts) ]
         newPoints == [i \in DOMAIN res |-> res[i].made]
     IN  /\ timeStepRef' = ts
         /\ orbitTicks' = IF variant = "capped" THEN orbitTicks
                          ELSE orbitTicks + 1
         /\ animatedPointsRef' = newPoints
         /\ animatedPoints' = newPoints
         /\ prevSnapshot' = IF aliased THEN [i \in DOMAIN res |-> res[i].kept]
                            ELSE animatedPoints
         /\ scenarios' =
              IF animatedPointIsScenarioObject(variant) /\ ~aliased
              THEN [scenarios EXCEPT ![effTab].heatmapPoints =
                      [i \in DOMAIN res |-> res[i].kept]]
              ELSE scenarios
  /\ aliased' = TRUE
  /\ mapHeatLayers' =
       [ i \in DOMAIN mapHeatLayers |->
           [mapHeatLayers[i] EXCEPT !.current = FALSE] ]
  /\ heatDirty' = TRUE
  /\ effectsPending' = TRUE
  /\ UNCHANGED << appVars, probe, variant, mounted, activeTab, effTab, mapReady,
                  timeoutActive, intervalActive,
                  heatCleanup, mapMarkers, throws >>

(***************************************************************************)
(* Events that only set state.                                             *)
(***************************************************************************)
\* Tabs: onClick={() => setActiveTab(index)} and the render it causes.
\* Setting the tab that is already active changes nothing.
SetActiveTab(index) ==
  /\ mounted
  /\ ~effectsPending
  /\ index # activeTab
  /\ activeTab' = index
  /\ effectsPending' = TRUE
  /\ UNCHANGED << appVars, probe, variant, scenarios, mounted, effTab, animatedPoints,
                  animatedPointsRef, timeStepRef, orbitTicks, aliased, prevSnapshot,
                  mapReady, timeoutActive,
                  intervalActive, heatDirty, mapHeatLayers, heatCleanup,
                  mapMarkers, throws >>

\* useMovingMarker: the 50 ms interval calls setMarkerData, HeatMap renders
\* again and with it HeatMapLayer, whose fighterJets is a new array.
MovingMarkerTick ==
  /\ mounted
  /\ ~effectsPending
  /\ effectsPending' = TRUE
  /\ UNCHANGED << appVars, probe, variant, scenarios, mounted, activeTab, effTab,
                  animatedPoints, animatedPointsRef, timeStepRef, orbitTicks, aliased,
                  prevSnapshot, mapReady,
                  timeoutActive, intervalActive, heatDirty, mapHeatLayers,
                  heatCleanup, mapMarkers, throws >>

\* a setMapReady(true) that is lost
setMapReadyLost ==
  /\ mapReady' = mapReady
  /\ heatDirty' = heatDirty
  /\ effectsPending' = effectsPending

\* setMapReady(true): a render follows only if the state changes
setMapReady ==
  /\ mapReady' = TRUE
  /\ heatDirty' = (heatDirty \/ ~mapReady)
  /\ effectsPending' = (effectsPending \/ ~mapReady)

\* The callback of setTimeout(..., 500) of the readiness effect.
ReadyTimeout ==
  /\ mounted
  /\ timeoutActive
  /\ timeoutActive' = FALSE
  /\ setMapReady
  /\ UNCHANGED << appVars, probe, variant, scenarios, mounted, activeTab, effTab,
                  animatedPoints, animatedPointsRef, timeStepRef, orbitTicks, aliased,
                  prevSnapshot, intervalActive,
                  mapHeatLayers, heatCleanup, mapMarkers, throws >>

\* Leaflet fires 'load' when the map's view is first set, once.  When the
\* readiness effect ran before that, map.whenReady registered handleMapReady
\* for the event, and it runs now.  A 'load' that comes when mapReady is
\* already true changes nothing.
MapLoad ==
  /\ mounted
  /\ effTab # 0
  /\ ~mapReady
  /\ setMapReady
  /\ UNCHANGED << appVars, probe, variant, scenarios, mounted, activeTab, effTab,
                  animatedPoints, animatedPointsRef, timeStepRef, orbitTicks,
                  aliased, prevSnapshot, timeoutActive, intervalActive,
                  mapHeatLayers, heatCleanup, mapMarkers, throws >>

(***************************************************************************)
(* Effects.                                                                *)
(***************************************************************************)
\* an AircraftIcons cleanup that removes nothing
removeMarkersNone(markers) == markers

\* AircraftIcons cleanup: markers.forEach(marker => marker.remove()); the
\* closure holds every marker the last run attached
removeMarkers(markers) == << >>

\* AircraftIcons effect: one L.marker per jet, added to the map; a marker is
\* represented by the jet it was made from
createMarkers(jets) == jets

\* the cleanup of the heat effect: part_003 removes every L.HeatLayer of
\* the map, HeatMap.tsx the layer its run attached
removeHeatLayers(v, layers) ==
  IF v = "capped" THEN << >>
  ELSE SelectSeq(layers, LAMBDA l : ~l.owned)

\* a rendering pass that writes the default intensity back into the point
forEachPointDefaulting(snapshot) ==
  [ i \in DOMAIN snapshot |->
      Spread(snapshot[i], [intensity |-> intensityOr1(snapshot[i])]) ]

\* The array the rendering effects read, after they ran: jets.map of
\* AircraftIcons and animatedPoints.forEach / animatedPoints.map of the heat
\* effect read the fields of each point and assign none.
forEachPoint(snapshot) == snapshot

\* an error of the heat effect that leaves the effect
errorEscapesUncaught(outcome) == outcome.thrown

\* The catch block of the heat effect logs the error and returns; an error
\* that left an effect would unmount the tree.
errorEscapes(outcome) == FALSE

\* the heat effect without the readiness gate
heatEffectRunsUngated(ready, snapshot) == Len(snapshot) > 0

\* the heat effect gets past `if (!map || !mapReady || animatedPoints.length === 0) return`
heatEffectRuns(ready, snapshot) == ready /\ Len(snapshot) > 0

\* How the try block of the heat effect can end when it builds n overlays:
\* it completes, or a call throws after `attached` overlays were added.
HeatOutcomes(n, canThrow) ==
  {[thrown |-> FALSE, attached |-> n]}
    \cup (IF canThrow
          THEN {[thrown |-> TRUE, attached |-> k] : k \in 0..Min(n, ThrowAfter)}
          ELSE {})

\* The try block of the heat effect on `layers`, the overlays on the map.
\* An overlay is "owned" when the run that attached it returned its cleanup,
\* "current" while it shows the snapshot held in state.
heatEffect(v, layers, snapshot, outcome) ==
  LET built == heatLayersFor(v, snapshot)
  IN  layers \o
      [ i \in 1..outcome.attached |->
          [ kind    |-> built[i].kind,
            n       |-> Len(built[i].latlngs),
            of      |-> ScenarioOf(snapshot[1]),
            current |-> TRUE,
            owned   |-> ~outcome.thrown ] ]

\* a [points] effect that leaves the tick counter as it is
resetTimeStepKept(v, ts) == ts

\* the [points] effect of useMovingHeatPoints: the new timeStepRef.current
resetTimeStep(v, ts) == IF v = "capped" THEN 0 ELSE ts

\* React runs the effects of the committed render: the cleanups of the
\* effects whose dependencies changed, then the effects.  `loaded` is
\* whether the map has fired 'load' when the readiness effect calls
\* map.whenReady, which then calls handleMapReady at once.  The objects of
\* the replaced snapshot are unreachable afterwards.
FlushEffects ==
  /\ mounted
  /\ effectsPending
  /\ \E loaded \in BOOLEAN :
     LET mounting == effTab = 0
         resetDue == effTab # activeTab
         readyNow == mounting /\ loaded
         cleaned  == IF heatDirty /\ heatCleanup
                     THEN removeHeatLayers(variant, mapHeatLayers)
                     ELSE mapHeatLayers
         building == heatDirty /\ heatEffectRuns(mapReady, animatedPoints)
         n        == IF building THEN Len(heatLayersFor(variant, animatedPoints))
                     ELSE 0
     IN  /\ mapMarkers' = removeMarkers(mapMarkers)
                            \o createMarkers(fighterJets(animatedPoints))
         /\ \E draws \in IF resetDue THEN DrawLists(variant, Len(points))
                         ELSE {<< >>} :
              /\ animatedPointsRef' =
                   IF resetDue THEN initializeAnimatedPoints(variant, points, draws)
                   ELSE animatedPointsRef
              /\ timeStepRef' = IF resetDue THEN resetTimeStep(variant, timeStepRef)
                                ELSE timeStepRef
              /\ orbitTicks' = IF resetDue THEN 0 ELSE orbitTicks
         /\ aliased' = (aliased /\ ~resetDue)
         /\ effTab' = activeTab
         /\ timeoutActive' = (timeoutActive \/ mounting)
         /\ mapReady' = (mapReady \/ readyNow)
         /\ animatedPoints' = forEachPoint(animatedPoints)
         /\ \E outcome \in HeatOutcomes(n, building /\ throws < MaxThrows) :
              /\ mounted' = ~errorEscapes(outcome)
              /\ intervalActive' = ~errorEscapes(outcome)
              /\ mapHeatLayers' =
                   IF building
                   THEN heatEffect(variant, cleaned, animatedPoints, outcome)
                   ELSE cleaned
              /\ heatCleanup' = IF heatDirty THEN (building /\ ~outcome.thrown)
                                ELSE heatCleanup
              /\ throws' = IF outcome.thrown THEN throws + 1 ELSE throws
         /\ heatDirty' = (readyNow /\ ~mapReady)
         /\ effectsPending' = (readyNow /\ ~mapReady)
         /\ prevSnapshot' = << >>
  /\ UNCHANGED << appVars, probe, variant, scenarios, activeTab >>

\* HeatMap is unmounted: React runs the cleanup of every effect that ran
\* and drops the state and refs of the components.  map.off('ready', ...)
\* names no event a handler was registered for.
Unmount ==
  /\ mounted
  /\ mounted' = FALSE
  /\ mapMarkers' = removeMarkers(mapMarkers)
  /\ mapHeatLayers' = IF heatCleanup THEN removeHeatLayers(variant, mapHeatLayers)
                      ELSE mapHeatLayers
  /\ heatCleanup' = FALSE
  /\ intervalActive' = FALSE
  /\ timeoutActive' = FALSE
  /\ effectsPending' = FALSE
  /\ heatDirty' = FALSE
  /\ activeTab' = 1
  /\ effTab' = 0
  /\ animatedPoints' = << >>
  /\ animatedPointsRef' = << >>
  /\ prevSnapshot' = << >>
  /\ timeStepRef' = 0
  /\ orbitTicks' = 0
  /\ aliased' = FALSE
  /\ mapReady' = FALSE
  /\ UNCHANGED << appVars, probe, variant, scenarios, throws >>

Next ==
  \/ Tick
  \/ \E index \in DOMAIN scenarios : SetActiveTab(index)
  \/ MovingMarkerTick
  \/ ReadyTimeout
  \/ MapLoad
  \/ FlushEffects
  \/ Unmount

Spec == Init /\ [][Next]_vars

\* React runs the effects of a committed render, and a pending timeout
\* fires.
FairSpec == Spec /\ WF_vars(FlushEffects) /\ WF_vars(ReadyTimeout)

(***************************************************************************)
(* Calls of single functions.  The functions of the module that do not     *)
(* depend on the component state are called on their own, on arguments     *)
(* drawn from the sets below, with the components unmounted.               *)
(***************************************************************************)
\* the state of the components when nothing is mounted
Unmounted ==
  /\ variant = "capped"
  /\ scenarios = scenariosOf(variant)
  /\ mounted = FALSE
  /\ activeTab = 1
  /\ effTab = 0
  /\ animatedPoints = << >>
  /\ animatedPointsRef = << >>
  /\ timeStepRef = 0
  /\ orbitTicks = 0
  /\ aliased = FALSE
  /\ prevSnapshot = << >>
  /\ mapReady = FALSE
  /\ timeoutActive = FALSE
  /\ intervalActive = FALSE
  /\ effectsPending = FALSE
  /\ heatDirty = FALSE
  /\ mapHeatLayers = << >>
  /\ heatCleanup = FALSE
  /\ mapMarkers = << >>
  /\ throws = 0

componentVars ==
  << variant, scenarios, mounted, activeTab, effTab, animatedPoints,
     animatedPointsRef, timeStepRef, orbitTicks, aliased, prevSnapshot,
     mapReady, timeoutActive, intervalActive, effectsPending, heatDirty,
     mapHeatLayers, heatCleanup, mapMarkers, throws >>

\* attribution scores (thousandths) and strategic values (tenths) on and
\* next to the thresholds of getColor
AttributionInputs ==
  {Absent} \cup {<< a >> : a \in {0, 399, 400, 599, 600, 799, 800, 1000}}

StrategicValueInputs == {10, 39, 40, 59, 60, 79, 80, 100}

\* the jets getColor is called on
ColorInputs ==
  [ friendly       : BOOLEAN,
    attribution    : AttributionInputs,
    strategicValue : StrategicValueInputs,
    threatLevel    : {1, 10},
    armamentLevel  : {1, 10} ]

\* createJetIcon calls getColor() for a jet
CallGetColor ==
  /\ probe = NoCall
  /\ \E jet \in ColorInputs :
       probe' = [op |-> "getColor", jet |-> jet, color |-> getColor(jet)]
  /\ UNCHANGED << appVars, componentVars >>

\* the entities the snapshots handed to the heat effect are made of: a
\* friendly and an enemy jet as generated and initialised, the enemy jet
\* without its attribution, the friendly jet with an attribution, and a
\* plain point
HeatEntities ==
  LET site  == scenarioSites[1]
      jets  == generateBattlefieldDataCapped(
                 site.markerCenter, site.radius,
                 [i \in DOMAIN positionsCapped |-> 60])
      draw  == CHOOSE d \in DrawsCapped : d.direction = 0
      blue  == initializePointCapped(jets[1], draw)
      red   == initializePointCapped(jets[7], draw)
  IN  << blue,
         red,
         [initializePointCapped(jets[8], draw) EXCEPT !.attribution = Absent],
         [initializePointCapped(jets[2], draw) EXCEPT !.attribution = << 500 >>],
         [lat |-> site.markerCenter[1], lng |-> site.markerCenter[2],
          intensity |-> 0] >>

\* the longest snapshot handed to the heat effect on its own
MaxSnapshot == 3

\* the snapshots: the lists of up to MaxSnapshot different entities
SnapshotInputs ==
  UNION { { [k \in 1..n |-> HeatEntities[pick[k]]] :
              pick \in { f \in [1..n -> DOMAIN HeatEntities] :
                           \A a, b \in 1..n : f[a] = f[b] => a = b } } :
          n \in 0..Min(MaxSnapshot, Len(HeatEntities)) }

\* the heat effect of part_003 fills its three point arrays from a snapshot
CallHeatPoints ==
  /\ probe = NoCall
  /\ \E snapshot \in SnapshotInputs :
       probe' = [ op          |-> "heatPoints",
                  snapshot    |-> snapshot,
                  friendly    |-> friendlyPoints(snapshot),
                  enemy       |-> enemyPoints(snapshot),
                  attribution |-> attributionPoints(snapshot) ]
  /\ UNCHANGED << appVars, componentVars >>

\* the jet types createSpecificJet is called with: the types of the table
\* and the types of the fixed positions, some of which the table lacks
JetTypeInputs ==
  {fighterJetTypes[i].type : i \in DOMAIN fighterJetTypes}
    \cup {positionsCapped[i].type : i \in DOMAIN positionsCapped}
    \cup {positionsElliptical[i].type : i \in DOMAIN positionsElliptical}

\* generateBattlefieldData calls createSpecificJet for a position
CallCreateSpecificJet ==
  /\ probe = NoCall
  /\ \E v \in Variants, jetType \in JetTypeInputs,
        index \in 0..(Len(callsignsElliptical) - 1),
        friendly \in BOOLEAN, r \in DOMAIN jitterOf :
       probe' =
         [ op      |-> "createSpecificJet",
           jetType |-> jetType,
           index   |-> index,
           jet     |-> IF v = "capped"
                       THEN createSpecificJetCapped(
                              scenarioSites[1].markerCenter[1],
                              scenarioSites[1].markerCenter[2],
                              jetType, index, friendly, jitterOf[r])
                       ELSE createSpecificJetElliptical(
                              scenarioSites[1].markerCenter[1],
                              scenarioSites[1].markerCenter[2],
                              jetType, index) ]
  /\ UNCHANGED << appVars, componentVars >>

\* centres and radii generateBattlefieldData is called with: those of the
\* scenarios, the origin, a centre of negative coordinates, radius zero and
\* the default radius 0.4
CenterInputs ==
  {scenarioSites[s].markerCenter : s \in DOMAIN scenarioSites}
    \cup {<< 0, 0 >>, << -337000, -1512000 >>}

RadiusInputs ==
  {scenarioSites[s].radius : s \in DOMAIN scenarioSites} \cup {0, 4000}

\* the scenarios array calls generateBattlefieldData(center, radius)
CallGenerateBattlefieldData ==
  /\ probe = NoCall
  /\ \E v \in Variants, center \in CenterInputs, radius \in RadiusInputs,
        r \in DOMAIN jitterOf :
       probe' =
         [ op      |-> "generateBattlefieldData",
           variant |-> v,
           center  |-> center,
           radius  |-> radius,
           jets    |-> IF v = "capped"
                       THEN generateBattlefieldDataCapped(
                              center, radius,
                              [i \in DOMAIN positionsCapped |-> jitterOf[r]])
                       ELSE generateBattlefieldDataElliptical(center, radius) ]
  /\ UNCHANGED << appVars, componentVars >>

\* the jets icons are made for: friendly and enemy, with and without an
\* attribution, of every strategic value next to a colour threshold
IconInputs ==
  [ friendly       : BOOLEAN,
    attribution    : {Absent, << 800 >>},
    strategicValue : StrategicValueInputs,
    heading        : {0} ]

\* jets.map of the AircraftIcons effect on two jets
CallCreateJetIcon ==
  /\ probe = NoCall
  /\ \E v \in Variants, a \in IconInputs, b \in IconInputs :
       /\ a # b
       /\ probe' = [ op      |-> "createJetIcon",
                     variant |-> v,
                     jets    |-> << a, b >>,
                     icons   |-> << createJetIcon(v, a, 24),
                                    createJetIcon(v, b, 24) >> ]
  /\ UNCHANGED << appVars, componentVars >>

\* ticks of one orbit that are followed: with the slowest speed 0.01 the
\* angle is back at its first value after 2 * Math.PI / 0.01 = 628 ticks
MaxRevolutionTicks == 628

\* the entities whose orbit is followed: the first two of a scenario
OrbitInputs ==
  LET jets == generateBattlefieldDataElliptical(
                scenarioSites[1].markerCenter, scenarioSites[1].radius)
  IN  {jets[1], jets[2]}

\* useMovingHeatPoints(points) of HeatMap.tsx on one entity: the state holds
\* the entity as passed in, the ref holds initializeAnimatedPoints of it
StartOrbit ==
  /\ probe = NoCall
  /\ \E point \in OrbitInputs, draw \in DrawsElliptical :
       probe' =
         [ op      |-> "orbit",
           initial |-> point,
           start   |-> draw.angle,
           point   |-> initializePointElliptical(point, draw),
           ticks   |-> 0 ]
  /\ UNCHANGED << appVars, componentVars >>

\* one run of the interval callback of HeatMap.tsx on that entity:
\* animatedPointsRef.current = newPoints
OrbitTick ==
  /\ probe.op = "orbit"
  /\ probe.ticks < MaxRevolutionTicks
  /\ probe' = [probe EXCEPT !.point = advanceElliptical(probe.point).made,
                            !.ticks = probe.ticks + 1]
  /\ UNCHANGED << appVars, componentVars >>

PureNext ==
  \/ CallGetColor
  \/ CallHeatPoints
  \/ CallCreateSpecificJet
  \/ CallGenerateBattlefieldData
  \/ StartOrbit
  \/ OrbitTick
  \/ CallCreateJetIcon

\* before any call: the component is not mounted
PureInit == Unmounted /\ probe = NoCall /\ AppIdle

PureSpec == PureInit /\ [][PureNext]_vars

(***************************************************************************)
(* The simulation feed: App of part_001 and part_002.                      *)
(***************************************************************************)
\* the length of simulationData.Timesteps (the asset is not part of the
\* sources)
NumTimesteps == 3

\* messages appended in one run
MaxAppended == 12

\* simulationData.Timesteps, indexed from 0; a message is told by its
\* call sign
Timesteps ==
  [ k \in 0..(NumTimesteps - 1) |->
      [ timestep |-> k, message |-> [call_sign |-> k] ] ]

\* a slice that keeps the whole list
sliceKeepsAll(list, n) == list

\* list.slice(-n): the last n elements, the whole list when it is shorter
slice(list, n) ==
  IF Len(list) <= n THEN list
  ELSE SubSeq(list, Len(list) - n + 1, Len(list))

\* App is mounted; the effect of the first render is pending
SimInit ==
  /\ simVariant \in {"once", "loop"}
  /\ simRunning = TRUE
  /\ simMessages = << >>
  /\ currentStep = 0
  /\ stepInClosure = 0
  /\ simInterval = FALSE
  /\ simEffectsPending = TRUE
  /\ simAppended = << >>

\* The callback of setInterval(..., 1000).  currentStep is the constant of
\* the render whose effect made the interval; the updaters of setMessages
\* and setCurrentStep get the latest state.  A changed currentStep makes a
\* render whose effect is due.
SimTimer ==
  /\ simRunning
  /\ simInterval
  /\ Len(simAppended) < MaxAppended
  /\ IF simVariant = "once"
     THEN IF stepInClosure < NumTimesteps
          THEN LET timestep == Timesteps[stepInClosure]
               IN  /\ simMessages' = Append(simMessages, timestep.message)
                   /\ simAppended' = Append(simAppended, timestep.message)
                   /\ currentStep' = currentStep + 1
                   /\ simEffectsPending' = TRUE
                   /\ UNCHANGED simInterval
          ELSE /\ simInterval' = FALSE
               /\ UNCHANGED << simMessages, simAppended, currentStep,
                               simEffectsPending >>
     ELSE LET timestep == Timesteps[stepInClosure]
          IN  /\ simMessages' =
                   slice(Append(simMessages, timestep.message), 10)
              /\ simAppended' = Append(simAppended, timestep.message)
              /\ currentStep' = (currentStep + 1) % NumTimesteps
              /\ simEffectsPending' =
                   (simEffectsPending
                      \/ (currentStep + 1) % NumTimesteps # currentStep)
              /\ UNCHANGED simInterval
  /\ UNCHANGED << simVariant, simRunning, stepInClosure, componentVars, probe,
                  socketVars >>

\* React runs the [currentStep] effect of the committed render: the cleanup
\* of the last run clears its interval, the effect makes a new one whose
\* callback closes over the currentStep of this render.
SimFlushEffects ==
  /\ simRunning
  /\ simEffectsPending
  /\ simEffectsPending' = FALSE
  /\ simInterval' = TRUE
  /\ stepInClosure' = currentStep
  /\ UNCHANGED << simVariant, simRunning, simMessages, currentStep,
                  simAppended, componentVars, probe, socketVars >>

\* App is unmounted: the cleanup clears the interval
SimUnmount ==
  /\ simRunning
  /\ simRunning' = FALSE
  /\ simInterval' = FALSE
  /\ simEffectsPending' = FALSE
  /\ UNCHANGED << simVariant, simMessages, currentStep, stepInClosure,
                  simAppended, componentVars, probe, socketVars >>

SimNext ==
  \/ SimTimer
  \/ SimFlushEffects
  \/ SimUnmount

\* App alone: nothing else is mounted
SimSpecInit == Unmounted /\ probe = NoCall /\ SocketIdle /\ SimInit

SimSpec == SimSpecInit /\ [][SimNext]_vars

(***************************************************************************)
(* The socket feeds: App of App.tsx, Home of part_004.                     *)
(***************************************************************************)
\* payloads handled in one run
MaxPayloads == 3

Pages == {"App", "HomeFeed", "HomeChat"}

\* the pages that keep a connection-status flag
HasFlag(p) == p \in {"HomeFeed", "HomeChat"}

\* demoMessages of the demo effect, indexed from 0; past the end the array
\* gives undefined
Undefined == [id |-> 0, callSign |-> "undefined"]

demoMessages ==
  [ i \in 0..3 |->
      IF i = 0 THEN [id |-> 1, callSign |-> "Eagle-Eye"]
      ELSE IF i = 1 THEN [id |-> 2, callSign |-> "Thunder-1"]
      ELSE IF i = 2 THEN [id |-> 3, callSign |-> "Road-Runner"]
      ELSE Undefined ]

\* event.data of a message event: text that is JSON of a message with an
\* id, or text that is not JSON
WellFormedPayloads ==
  { [valid |-> TRUE, text |-> "message", id |-> m] : m \in 1..MaxPayloads }

MalformedPayloads == { [valid |-> FALSE, text |-> "{", id |-> 0] }

\* JSON.parse(event.data): the message, or a SyntaxError
JSONparse(data) ==
  IF data.valid
  THEN [ok |-> TRUE, value |-> [id |-> data.id, callSign |-> "FIELD"]]
  ELSE [ok |-> FALSE, value |-> Undefined]

\* the chat entries of Home: `user-${wsMessage.id}`,
\* `response-${wsMessage.id}`, and the system entries of the socket events
userMessage(wsMessage) == [id |-> << "user", wsMessage.id >>, role |-> "user"]

aiResponseMessage(id) == [id |-> << "response", id >>, role |-> "assistant"]

systemMessage(content) == [id |-> << "now", 0 >>, role |-> "system",
                           content |-> content]

\* an onmessage that starts no timer
setTimeoutNone(timers, id) == timers

\* setTimeout(() => ..., 500) of onmessage: timers of equal delay fire in
\* the order they were set
setTimeout(timers, id) == Append(timers, id)

\* a page is mounted; the effects of its first render are pending
SocketInit ==
  /\ page \in Pages
  /\ pageEffectsPending = TRUE
  /\ SocketFresh

\* what the socket feeds leave alone
otherVars == << simVars, componentVars, probe >>

\* React runs the effects of the committed render.  The [] effect runs once
\* and makes the socket; in Home (feed) the constructor is inside try, and
\* a throw ends in the catch block.  The [connected, messages.length] effect
\* of Home (feed) first cleans up (clearInterval), then starts the demo
\* interval with index = 0 when nothing is connected and nothing was
\* received.
PageFlushEffects ==
  /\ page \in Pages
  /\ pageEffectsPending
  /\ pageEffectsPending' = FALSE
  /\ IF socketsCreated = 0
     THEN /\ socketsCreated' = 1
          /\ \E constructorThrows \in IF page = "HomeFeed" THEN BOOLEAN ELSE {FALSE} :
               /\ wsState' = IF constructorThrows THEN "none" ELSE "connecting"
               /\ consoleErrors' = IF constructorThrows THEN consoleErrors + 1
                                   ELSE consoleErrors
     ELSE UNCHANGED << socketsCreated, wsState, consoleErrors >>
  /\ IF page = "HomeFeed"
     THEN /\ demoInterval' = (~connected /\ Len(messages) = 0)
          /\ demoIndex' = IF ~connected /\ Len(messages) = 0 THEN 0
                          ELSE demoIndex
     ELSE UNCHANGED << demoInterval, demoIndex >>
  /\ UNCHANGED << page, connected, messages, chatMessages, responseTimers,
                  uncaughtErrors, received, lastTransition, otherVars >>

\* ws.onopen
WsOpen ==
  /\ page \in Pages
  /\ wsState = "connecting"
  /\ wsState' = "open"
  /\ lastTransition' = "open"
  /\ connected' = IF HasFlag(page) THEN TRUE ELSE connected
  /\ chatMessages' =
       IF page = "HomeChat"
       THEN Append(chatMessages,
                   systemMessage("SECURE CONNECTION ESTABLISHED WITH FIELD UNITS"))
       ELSE chatMessages
  /\ pageEffectsPending' =
       (pageEffectsPending \/ (page = "HomeFeed" /\ ~connected))
  /\ UNCHANGED << page, socketsCreated, messages, responseTimers,
                  demoInterval, demoIndex, consoleErrors, uncaughtErrors,
                  received, otherVars >>

\* ws.onmessage on event.data = data.  App.tsx calls JSON.parse outside any
\* try; both Homes catch and log.  The server numbers its messages: the
\* n-th payload, when it is a message, has id n.
WsMessage(data) ==
  /\ page \in Pages
  /\ wsState = "open"
  /\ Len(received) < MaxPayloads
  /\ data.valid => data.id = Len(received) + 1
  /\ received' = Append(received, data)
  /\ LET parsed == JSONparse(data)
     IN  /\ messages' = IF parsed.ok /\ page \in {"App", "HomeFeed"}
                        THEN Append(messages, parsed.value)
                        ELSE messages
         /\ chatMessages' = IF parsed.ok /\ page = "HomeChat"
                            THEN Append(chatMessages, userMessage(parsed.value))
                            ELSE chatMessages
         /\ responseTimers' = IF parsed.ok /\ page = "HomeChat"
                              THEN setTimeout(responseTimers, parsed.value.id)
                              ELSE responseTimers
         /\ consoleErrors' = IF ~parsed.ok /\ page # "App"
                             THEN consoleErrors + 1 ELSE consoleErrors
         /\ uncaughtErrors' = IF ~parsed.ok /\ page = "App"
                              THEN uncaughtErrors + 1 ELSE uncaughtErrors
         /\ pageEffectsPending' =
              (pageEffectsPending \/ (parsed.ok /\ page = "HomeFeed"))
  /\ UNCHANGED << page, wsState, socketsCreated, connected, demoInterval,
                  demoIndex, lastTransition, otherVars >>

\* The callback of setTimeout(..., 500) of Home (chat): the oldest pending
\* one fires.
ResponseTimer ==
  /\ page = "HomeChat"
  /\ responseTimers # << >>
  /\ chatMessages' = Append(chatMessages, aiResponseMessage(Head(responseTimers)))
  /\ responseTimers' = Tail(responseTimers)
  /\ UNCHANGED << page, wsState, socketsCreated, connected, messages,
                  demoInterval, demoIndex, pageEffectsPending, consoleErrors,
                  uncaughtErrors, received, lastTransition, otherVars >>

\* ws.onerror; the browser fires close after it.  Home (feed) clears the
\* flag, Home (chat) adds a system entry and leaves the flag.
WsError ==
  /\ page \in Pages
  /\ wsState \in {"connecting", "open"}
  /\ wsState' = "failed"
  /\ lastTransition' = "error"
  /\ consoleErrors' = consoleErrors + 1
  /\ connected' = IF page = "HomeFeed" THEN FALSE ELSE connected
  /\ chatMessages' =
       IF page = "HomeChat"
       THEN Append(chatMessages,
                   systemMessage("ERROR: COMMUNICATION LINK DISRUPTED"))
       ELSE chatMessages
  /\ pageEffectsPending' =
       (pageEffectsPending \/ (page = "HomeFeed" /\ connected))
  /\ UNCHANGED << page, socketsCreated, messages, responseTimers,
                  demoInterval, demoIndex, uncaughtErrors, received,
                  otherVars >>

\* ws.onclose: the server closed the open connection, or the connection
\* failed
WsClose ==
  /\ page \in Pages
  /\ wsState \in {"open", "failed"}
  /\ wsState' = "closed"
  /\ lastTransition' = "close"
  /\ connected' = IF HasFlag(page) THEN FALSE ELSE connected
  /\ chatMessages' =
       IF page = "HomeChat"
       THEN Append(chatMessages,
                   systemMessage("ALERT: FIELD UNIT CONNECTION TERMINATED"))
       ELSE chatMessages
  /\ pageEffectsPending' =
       (pageEffectsPending \/ (page = "HomeFeed" /\ connected))
  /\ UNCHANGED << page, socketsCreated, messages, responseTimers,
                  demoInterval, demoIndex, consoleErrors, uncaughtErrors,
                  received, otherVars >>

\* The callback of setInterval(..., 1500) of the demo effect.  The updater
\* prev => [...prev, demoMessages[index]] reads index when React runs it:
\* at the call, or in the next render, after index++.
DemoTimer ==
  /\ page = "HomeFeed"
  /\ demoInterval
  /\ IF demoIndex < 3
     THEN /\ \E read \in {demoIndex, demoIndex + 1} :
               messages' = Append(messages, demoMessages[read])
          /\ demoIndex' = demoIndex + 1
          /\ pageEffectsPending' = TRUE
          /\ UNCHANGED demoInterval
     ELSE /\ demoInterval' = FALSE
          /\ UNCHANGED << messages, demoIndex, pageEffectsPending >>
  /\ UNCHANGED << page, wsState, socketsCreated, connected, chatMessages,
                  responseTimers, consoleErrors, uncaughtErrors, received,
                  lastTransition, otherVars >>

SocketNext ==
  \/ PageFlushEffects
  \/ WsOpen
  \/ \E data \in WellFormedPayloads \cup MalformedPayloads : WsMessage(data)
  \/ ResponseTimer
  \/ WsError
  \/ WsClose
  \/ DemoTimer

\* a socket feed alone: nothing else is mounted
SocketSpecInit == Unmounted /\ probe = NoCall /\ SimIdle /\ SocketInit

SocketSpec == SocketSpecInit /\ [][SocketNext]_vars

\* React runs the effects of a committed render, and live timers fire; the
\* socket owes no event.
SocketFairSpec ==
  SocketSpec /\ WF_vars(PageFlushEffects) /\ WF_vars(DemoTimer)
    /\ WF_vars(ResponseTimer)

(***************************************************************************)
(* Properties.                                                             *)
(***************************************************************************)
\* the effects of the committed render have run: what the map shows is the
\* rendering of animatedPoints
Rendered == mounted /\ ~effectsPending

\* C1: under the capped model a tick never decreases an entity's
\* accumulated distance, and a tick that brings the tick counter to
\* maxTimeSteps or beyond leaves the distance, the latitude and the
\* longitude of every entity as the previous tick left them.
C1_DistanceMonotoneThenFrozen ==
  [][ (variant = "capped" /\ Tick) =>
        /\ \A i \in DOMAIN animatedPointsRef :
             animatedPointsRef'[i].distance >= animatedPointsRef[i].distance
        /\ timeStepRef' >= maxTimeSteps =>
             \A i \in DOMAIN animatedPoints :
               /\ animatedPoints'[i].distance = animatedPoints[i].distance
               /\ animatedPoints'[i].lat = animatedPoints[i].lat
               /\ animatedPoints'[i].lng = animatedPoints[i].lng ]_vars

\* C1: a rendered state past the cap, the entities having moved
C1_Witness ==
  /\ variant = "capped"
  /\ Rendered
  /\ timeStepRef > maxTimeSteps
  /\ \A i \in DOMAIN animatedPoints : animatedPoints[i].distance > 0

\* C2: once the rebuild for a tick has run, every heat overlay on the map
\* was built from the current snapshot, and there are no more of them than
\* one rebuild constructs (one, or at most three).
C2_OnlyCurrentOverlays ==
  Rendered =>
    /\ \A i \in DOMAIN mapHeatLayers : mapHeatLayers[i].current
    /\ Len(mapHeatLayers) <= Len(heatLayersFor(variant, animatedPoints))

\* C3: once a render's effects have run, the markers on the map are the
\* entities of the snapshot, one marker per entity in the same order.
C3_MarkersMatchSnapshot ==
  Rendered =>
    /\ Len(mapMarkers) = Len(animatedPoints)
    /\ \A i \in DOMAIN mapMarkers : mapMarkers[i] = animatedPoints[i]

\* C3: a tick of the second scenario is rendered, whose entity count differs
\* from the first scenario's
C3_Witness ==
  /\ Rendered
  /\ activeTab = 2
  /\ aliased
  /\ Len(scenarios[2].heatmapPoints) # Len(scenarios[1].heatmapPoints)
  /\ Len(mapMarkers) = Len(scenarios[2].heatmapPoints)

\* the angle an elliptical entity initialised with `draw` stores after k
\* ticks
RECURSIVE AngleAfter(_, _)
AngleAfter(draw, k) ==
  IF k = 0 THEN draw.angle
  ELSE normalizeAngle(AngleAfter(draw, k - 1)
                      + (IF draw.clockwise THEN 1 ELSE -1) * draw.speed)

\* C4: once the [points] effect has run for the active scenario, the motion
\* state is that scenario's: one entry per point of the scenario, started at
\* that point; in the capped model the accumulated distance is what the
\* ticks since the reset added, starting from 0 with the tick counter at 0;
\* in the elliptical model the angle is what the ticks since the reset made
\* of a fresh draw.  A snapshot published since the reset is that state.
C4_ResetRestartsMotion ==
  (mounted /\ effTab = activeTab) =>
    /\ Len(animatedPointsRef) = Len(points)
    /\ \A i \in DOMAIN animatedPointsRef :
         /\ Origin(animatedPointsRef[i]) = << points[i].lat, points[i].lng >>
         /\ variant = "capped" =>
              animatedPointsRef[i].distance =
                animatedPointsRef[i].speed * Min(timeStepRef, maxTimeSteps - 1)
         /\ variant = "elliptical" =>
              \E draw \in DrawsElliptical :
                animatedPointsRef[i].angle = AngleAfter(draw, orbitTicks)
    /\ aliased => animatedPoints = animatedPointsRef

\* C4: the [points] effect has just run for the second scenario while the
\* snapshot on screen still shows the distance the first scenario's entities
\* had accumulated
C4_Witness ==
  /\ variant = "capped"
  /\ mounted
  /\ activeTab = 2
  /\ effTab = 2
  /\ ~aliased
  /\ timeStepRef = 0
  /\ \A i \in DOMAIN animatedPointsRef : animatedPointsRef[i].distance = 0
  /\ HasField(animatedPoints[1], "distance")
  /\ animatedPoints[1].distance > 0
  /\ ScenarioOf(animatedPoints[1]) = 1

\* C5: after teardown no tick timer, heat overlay or marker remains; after a
\* scenario switch, once the previous scenario's motion state is discarded,
\* no marker or heat overlay of the previous scenario remains on the map.
C5_StopRemovesEverything ==
  /\ ~mounted =>
       /\ ~intervalActive
       /\ mapHeatLayers = << >>
       /\ mapMarkers = << >>
  /\ (mounted /\ effTab = activeTab) =>
       /\ \A i \in DOMAIN mapMarkers : ScenarioOf(mapMarkers[i]) = activeTab
       /\ \A i \in DOMAIN mapHeatLayers : mapHeatLayers[i].of = activeTab

\* C6: a tick leaves every object of the snapshot it replaces as it was
\* published.
C6_PublishedSnapshotUnchanged ==
  [][ Tick => prevSnapshot' = animatedPoints ]_vars

\* C7: under the elliptical model every stored angle is in [0, 2 pi).
C7_AngleNormalized ==
  (variant = "elliptical" /\ mounted) =>
    \A i \in DOMAIN animatedPointsRef :
      /\ animatedPointsRef[i].angle >= 0
      /\ animatedPointsRef[i].angle < TwoPi

\* C8: in every snapshot the heading of every entity is in [0, 360).
C8_HeadingInRange ==
  mounted =>
    \A i \in DOMAIN animatedPoints :
      HasField(animatedPoints[i], "heading") =>
        /\ animatedPoints[i].heading >= 0
        /\ animatedPoints[i].heading < FullCircle

\* C9: while mapReady is false no heat overlay is on the map.
C9_NoOverlayBeforeReady ==
  (mounted /\ ~mapReady) => mapHeatLayers = << >>

\* C9: a tick was rendered, the heat effect ran, and mapReady is still false
C9_Witness ==
  /\ Rendered
  /\ ~mapReady
  /\ aliased
  /\ timeoutActive

\* C10: while HeatMapLayer stays mounted mapReady becomes true, and while
\* it stays mounted mapReady does not become false again.
C10_ReadyEventuallyAndForGood ==
  /\ <>(mapReady \/ ~mounted)
  /\ [][ (mapReady /\ mounted') => mapReady' ]_vars

\* C10: the fallback timer has fired and mapReady is true
C10_Witness ==
  /\ mounted
  /\ effTab # 0
  /\ ~timeoutActive
  /\ mapReady

\* the ids of a list of entities, in order
Ids(list) == [i \in DOMAIN list |-> list[i].id]

\* C11: a snapshot published by a tick of the active scenario holds the
\* entities of that scenario: as many as the scenario was initialised with, with the same ids
\* in the same order, all ids different.
C11_SameEntities ==
  (mounted /\ aliased /\ effTab = activeTab) =>
    /\ Ids(animatedPoints) = Ids(points)
    /\ \A i, j \in DOMAIN animatedPoints :
         animatedPoints[i].id = animatedPoints[j].id => i = j

\* C11: the third tick of a scenario of two entities is rendered
C11_Witness ==
  /\ variant = "capped"
  /\ Rendered
  /\ aliased
  /\ timeStepRef = 3
  /\ Len(animatedPoints) = 2

\* C12: a run of the rendering effects and their cleanups leaves every
\* entity of the snapshot as it was, and when the points prop did not change
\* it leaves animatedPointsRef and the tick counter as they were.
C12_RenderingKeepsEntityState ==
  [][ FlushEffects =>
        /\ animatedPoints' = animatedPoints
        /\ effTab = activeTab =>
             /\ animatedPointsRef' = animatedPointsRef
             /\ timeStepRef' = timeStepRef ]_vars

\* C12: the effects of a tick's render have run: overlays and markers of
\* the snapshot are on the map
C12_Witness ==
  /\ Rendered
  /\ aliased
  /\ mapMarkers # << >>
  /\ \E i \in DOMAIN mapHeatLayers : mapHeatLayers[i].current

Bucket(value, low, mid, high) ==
  IF value >= high THEN 4
  ELSE IF value >= mid THEN 3
  ELSE IF value >= low THEN 2
  ELSE 1

\* C14: the colour of an enemy jet is the colour of its bucket: by
\* attribution with edges 0.4, 0.6 and 0.8 when the attribution is present,
\* by strategicValue with edges 4, 6 and 8 when it is absent.
C14_EnemyColourBuckets ==
  (probe.op = "getColor" /\ ~probe.jet.friendly) =>
    IF probe.jet.attribution # Absent
    THEN probe.color =
           attributionScale[Bucket(probe.jet.attribution[1], 400, 600, 800)]
    ELSE probe.color =
           strategicValueScale[Bucket(probe.jet.strategicValue, 40, 60, 80)]

\* C14: an enemy jet whose attribution is exactly 0.8 got the colour of the
\* highest bucket
C14_Witness ==
  /\ probe.op = "getColor"
  /\ ~probe.jet.friendly
  /\ probe.jet.attribution = << 800 >>
  /\ probe.color = attributionScale[4]

\* C15: the colour of a friendly jet is the one fixed colour, whatever its
\* strategicValue, threatLevel, armamentLevel and attribution.
C15_FriendlyColourFixed ==
  (probe.op = "getColor" /\ probe.jet.friendly) => probe.color = "#0080FF"

\* C15: a friendly jet that carries the highest attribution and strategic
\* value got the friendly colour
C15_Witness ==
  /\ probe.op = "getColor"
  /\ probe.jet.friendly
  /\ probe.jet.attribution = << 1000 >>
  /\ probe.jet.strategicValue = 100
  /\ probe.color = "#0080FF"

\* how many entries of a point array lie at the position of entity e
CountAt(list, e) ==
  Cardinality({k \in DOMAIN list : list[k][1] = e.lat /\ list[k][2] = e.lng})

\* the entity is an enemy that carries an attribution score
EnemyWithAttribution(e) ==
  /\ ~isFriendlyPoint(e)
  /\ HasField(e, "attribution")
  /\ e.attribution # Absent

\* C16: the heat effect puts every entity of the snapshot into the friendly
\* array if it is friendly and into the enemy array if it is not, and into
\* no other of the two; the attribution array holds one entry for every
\* enemy entity that carries an attribution, weighted by that attribution,
\* and nothing else.
C16_PointSetsPartition ==
  probe.op = "heatPoints" =>
    /\ Len(probe.friendly) + Len(probe.enemy) = Len(probe.snapshot)
    /\ Len(probe.attribution) =
         Cardinality({i \in DOMAIN probe.snapshot :
                        EnemyWithAttribution(probe.snapshot[i])})
    /\ \A i \in DOMAIN probe.snapshot :
         LET e == probe.snapshot[i]
         IN  /\ CountAt(probe.friendly, e) = IF isFriendlyPoint(e) THEN 1 ELSE 0
             /\ CountAt(probe.enemy, e) = IF isFriendlyPoint(e) THEN 0 ELSE 1
             /\ IF EnemyWithAttribution(e)
                THEN \E k \in DOMAIN probe.attribution :
                       probe.attribution[k] = << e.lat, e.lng, e.attribution[1] >>
                ELSE CountAt(probe.attribution, e) = 0

\* C16: a snapshot of a friendly jet that carries an attribution, an enemy
\* jet with an attribution and an enemy jet without one was split
C16_Witness ==
  /\ probe.op = "heatPoints"
  /\ Len(probe.snapshot) = 3
  /\ Len(probe.friendly) = 1
  /\ Len(probe.enemy) = 2
  /\ Len(probe.attribution) = 1
  /\ \E i \in DOMAIN probe.snapshot :
       /\ isFriendlyPoint(probe.snapshot[i])
       /\ probe.snapshot[i].attribution # Absent

\* the attributes of an entity are in their ranges
AttributesInRange(e) ==
  /\ e.threatLevel >= 1 /\ e.threatLevel <= 10
  /\ e.armamentLevel >= 1 /\ e.armamentLevel <= 10
  /\ e.strategicValue >= 10 /\ e.strategicValue <= 100
  /\ HasField(e, "attribution") =>
       IF e.friendly THEN e.attribution = Absent
       ELSE e.attribution # Absent =>
              (e.attribution[1] >= 0 /\ e.attribution[1] <= 1000)

\* every list the generators make for the scenario sites, under the
\* smallest and the largest random draw of the attribution
GeneratedLists ==
  { generateBattlefieldDataCapped(
      scenarioSites[s].markerCenter, scenarioSites[s].radius,
      [i \in DOMAIN positionsCapped |-> jitterOf[r]]) :
        s \in DOMAIN scenarioSites, r \in DOMAIN jitterOf }
  \cup
  { generateBattlefieldDataElliptical(
      scenarioSites[s].markerCenter, scenarioSites[s].radius) :
        s \in DOMAIN scenarioSites }

\* C17: threatLevel, armamentLevel and strategicValue of every entity are
\* in [1, 10], an enemy's attribution is in [0, 1] when present and a
\* friendly entity has none: for every generated entity, and for every
\* entity of the snapshot and of the motion state after any number of
\* ticks.
C17_AttributesInRange ==
  /\ \A list \in GeneratedLists :
       \A i \in DOMAIN list : AttributesInRange(list[i])
  /\ \A i \in DOMAIN animatedPoints : AttributesInRange(animatedPoints[i])
  /\ \A i \in DOMAIN animatedPointsRef : AttributesInRange(animatedPointsRef[i])

\* C17: ticks of a scenario were rendered whose enemy jet has the largest
\* attribution
C17_Witness ==
  /\ variant = "capped"
  /\ Rendered
  /\ aliased
  /\ timeStepRef >= 2
  /\ \E i \in DOMAIN animatedPoints :
       /\ ~animatedPoints[i].friendly
       /\ animatedPoints[i].attribution = << 1000 >>

\* clamp(x, low, high)
Clamp(x, low, high) == Max(low, Min(high, x))

C20_FullRevolutionReturns ==
  ( /\ probe.op = "orbit"
    /\ probe.ticks > 0
    /\ (probe.point.angle - probe.start) % TwoPi = 0 ) =>
    /\ Abs(probe.point.lat - probe.initial.lat) <= 1
    /\ Abs(probe.point.lng - probe.initial.lng) <= 1

\* C21: the marker icon size is an increasing function of strategicValue,
\* whatever the colour: two entities of different strategicValue get icons of
\* different size.
C21_IconSizeFollowsValue ==
  probe.op = "createJetIcon" =>
    \A i, j \in DOMAIN probe.jets :
      probe.jets[i].strategicValue < probe.jets[j].strategicValue =>
        /\ probe.icons[i].iconSize[1] < probe.icons[j].iconSize[1]
        /\ probe.icons[i].width < probe.icons[j].width

\* C30: every entity the generator produces has the threatLevel and the
\* armamentLevel of the fighterJetTypes entry that bears the entity's own type
\* label.
C30_LevelsOfOwnType ==
  probe.op = "generateBattlefieldData" =>
    \A i \in DOMAIN probe.jets :
      \E t \in DOMAIN fighterJetTypes :
        /\ fighterJetTypes[t].type = probe.jets[i].type
        /\ fighterJetTypes[t].baseThreat = probe.jets[i].threatLevel
        /\ fighterJetTypes[t].baseArmament = probe.jets[i].armamentLevel

\* C26: an overlay that a throwing render cycle had attached (no cleanup
\* owns it) is off the map once the rebuild of the next cycle has run: what
\* is attached then is owned by a cleanup or was built from the current
\* snapshot.
C26_FailedOverlaysRemoved ==
  Rendered =>
    \A i \in DOMAIN mapHeatLayers :
      mapHeatLayers[i].owned \/ mapHeatLayers[i].current

\* C29: ticks and scenario switches leave every scenario's generated entity
\* list as it was generated, and the entities of a (re-)selected scenario
\* start from their generated positions.
C29_ScenariosKeepGeneratedPoints ==
  /\ scenarios = scenariosOf(variant)
  /\ (mounted /\ effTab = activeTab /\ ~aliased) =>
       \A i \in DOMAIN animatedPointsRef :
         /\ animatedPointsRef[i].lat = scenariosOf(variant)[effTab].heatmapPoints[i].lat
         /\ animatedPointsRef[i].lng = scenariosOf(variant)[effTab].heatmapPoints[i].lng

\* C29: the first scenario is selected again after ticks of another scenario,
\* whose entities the snapshot still shows
C29_Witness ==
  /\ Rendered
  /\ effTab = 1
  /\ activeTab = 1
  /\ ~aliased
  /\ Len(animatedPoints) > 0
  /\ ScenarioOf(animatedPoints[1]) # 1
  /\ \E i \in DOMAIN animatedPoints :
       << animatedPoints[i].lat, animatedPoints[i].lng >> # Origin(animatedPoints[i])

\* C22: the timestep records are consumed in order, one per timer firing:
\* the k-th message appended (from 0) is that of Timesteps[k], and nothing
\* follows the last timestep, where the feed plays once; it is that of
\* Timesteps[k mod n] where the feed loops.
C22_ConsumedInOrder ==
  simRunning =>
    /\ simVariant = "once" => Len(simAppended) <= NumTimesteps
    /\ \A k \in 0..(Len(simAppended) - 1) :
         simAppended[k + 1] = Timesteps[k % NumTimesteps].message

\* the last n elements of a list
LastOf(list, n) ==
  SubSeq(list, Len(list) - Min(n, Len(list)) + 1, Len(list))

\* C28: in the looping feed the message list holds at most 10 messages, the
\* most recently appended ones in arrival order, and currentStep is an index
\* into the timestep sequence.
C28_LastTenAndValidStep ==
  simVariant = "loop" =>
    /\ Len(simMessages) <= 10
    /\ simMessages = LastOf(simAppended, 10)
    /\ currentStep \in 0..(NumTimesteps - 1)

\* C28: more than 10 messages were appended and the list holds the last 10
C28_Witness ==
  /\ simVariant = "loop"
  /\ simRunning
  /\ Len(simAppended) > 10
  /\ Len(simMessages) = 10
  /\ simMessages[10] = simAppended[Len(simAppended)]

\* C23: handling a payload that is not valid JSON leaves the message list
\* and every other piece of state as it was, the error is caught and logged,
\* and a message that arrives afterwards is parsed and appended.
C23_MalformedPayloadDropped ==
  [][ /\ (\E data \in MalformedPayloads : WsMessage(data)) =>
          /\ messages' = messages
          /\ connected' = connected
          /\ wsState' = wsState
          /\ demoInterval' = demoInterval
          /\ pageEffectsPending' = pageEffectsPending
          /\ consoleErrors' = consoleErrors + 1
          /\ uncaughtErrors' = uncaughtErrors
      /\ ( /\ page \in {"App", "HomeFeed"}
           /\ \E k \in DOMAIN received : ~received[k].valid
           /\ \E data \in WellFormedPayloads : WsMessage(data) ) =>
          /\ Len(messages') = Len(messages) + 1
          /\ messages'[Len(messages')].id = Len(received')
    ]_vars

\* C24: the connection-status flag is false initially, true only after an
\* open event, and false after an error or close event; no second socket is
\* created.
C24_FlagFollowsSocket ==
  HasFlag(page) =>
    /\ connected => lastTransition = "open"
    /\ lastTransition \in {"none", "error", "close"} => ~connected
    /\ socketsCreated <= 1

\* C25: when the connection never opens and no socket message arrives, the
\* three demo messages are eventually all in the message list, in the order
\* 1, 2, 3, each once.
C25_DemoMessagesAllAppended ==
  <>( page = "HomeFeed" =>
        \/ connected
        \/ received # << >>
        \/ [k \in DOMAIN messages |-> messages[k].id] = << 1, 2, 3 >> )

\* how often entry occurs in list
Occurrences(list, entry) ==
  Cardinality({k \in DOMAIN list : list[k] = entry})

\* the first place of entry in list
PlaceOf(list, entry) ==
  CHOOSE k \in DOMAIN list :
    list[k] = entry /\ \A j \in DOMAIN list : list[j] = entry => k <= j

\* C27: every well-formed socket message m handled by the chat has one
\* entry user-m, and one entry response-m once its timer has fired (none
\* while the timer is pending); user-m stands before response-m; there are
\* no user or response entries of other messages.
C27_UserThenResponse ==
  page = "HomeChat" =>
    /\ \A k \in DOMAIN received :
         received[k].valid =>
           LET m    == JSONparse(received[k]).value
               user == userMessage(m)
               resp == aiResponseMessage(m.id)
           IN  /\ Occurrences(chatMessages, user) = 1
               /\ Occurrences(chatMessages, resp)
                    + Occurrences(responseTimers, m.id) = 1
               /\ Occurrences(chatMessages, resp) = 1 =>
                    PlaceOf(chatMessages, user) < PlaceOf(chatMessages, resp)
    /\ \A j \in DOMAIN chatMessages :
         chatMessages[j].role \in {"user", "assistant"} =>
           \E k \in DOMAIN received :
             /\ received[k].valid
             /\ chatMessages[j].id[2] = received[k].id

\* C27: two messages were handled before the first response; both responses
\* are in the chat, the second one after the close event
C27_Witness ==
  /\ page = "HomeChat"
  /\ wsState = "closed"
  /\ responseTimers = << >>
  /\ Len(chatMessages) = 6
  /\ chatMessages[2].id = << "user", 1 >>
  /\ chatMessages[3].id = << "user", 2 >>
  /\ chatMessages[4].id = << "response", 1 >>
  /\ chatMessages[5].role = "system"
  /\ chatMessages[6].id = << "response", 2 >>

====
